---- MODULE Spec2Model ----
(***************************************************************************)
(* A model of scripts/update-employees.ts: the weekly employee updater.     *)
(*                                                                          *)
(* main() loads a JSON array of raw rows, cleans and validates each row,    *)
(* upserts the accepted rows into the employee table in batches (one        *)
(* prisma.$transaction per batch), writes the weekly summary and            *)
(* disconnects.  The scheduler starts the same job again later, so a run    *)
(* that has exited may be followed by another run over the same input.      *)
(*                                                                          *)
(* Strings are sequences of characters (one-character TLA+ strings), so     *)
(* that trim() and toLowerCase() do real work.  undefined, null and the     *)
(* booleans of a raw row are one-element sequences holding a token that is  *)
(* no character.  Hours are integers: thousandths of an hour in a raw row,  *)
(* hundredths of an hour once toFloat2 has rounded them.                    *)
(***************************************************************************)
EXTENDS Integers, Sequences, FiniteSets, TLC

VARIABLES
    \* ---- the run's inputs (the file, the flag, the environment) ----
    inputState,   \* "missing" | "badjson" | "notarray" | "ok": what INPUT holds
    rows,         \* the parsed array of raw rows (when inputState = "ok")
    dry,          \* process.argv.includes('--dry-run')
    batchSize,    \* BATCH_SIZE
    \* ---- the employee table ----
    store,        \* the committed rows
    \* ---- main()'s locals and position ----
    pc,           \* where main() is
    i,            \* forEach index, 0-based as in the code
    cleaned,      \* const cleaned
    errors,       \* const errors: <<[index, error]>>
    rejections,   \* what rejections-<ts>.json holds, <<>> when not written
    batches,      \* const batches
    b,            \* the for loop's b, 0-based as in the code
    j,            \* operations of the current transaction already executed
    txStore,      \* the table as the open transaction sees it
    success,      \* let success
    entries,      \* weeklySummary's entries, in the CSV's row order
    summarized,   \* the rows weeklySummary was called with
    doneLogged,   \* the "DONE." line has been printed
    disconnected, \* prisma.$disconnect() has been called in this run
    exitCode,     \* the process's exit code, -1 while it runs
    \* ---- history, for stating the properties ----
    run,          \* which run of the job this is, from 1
    runStart,     \* the table when this run started
    submitted,    \* the batch numbers (1-based) handed to $transaction, in order
    failedBatch,  \* the batch number whose transaction failed, 0 when none
    storeFault,   \* a store failure or timeout was injected in some run
    committed,    \* how many transactions of this run have committed
    prevStore,    \* the table when the previous run exited
    \* ---- the harnesses of the pure functions ----
    tbArr, tbSize, tbOut, tbDone,     \* toBatches
    wsRows, wsOut, wsDone             \* weeklySummary

vars == <<inputState, rows, dry, batchSize, store, pc, i, cleaned, errors,
          rejections, batches, b, j, txStore, success, entries, summarized,
          doneLogged, disconnected, exitCode, run, runStart, submitted,
          failedBatch, storeFault, committed, prevStore,
          tbArr, tbSize, tbOut, tbDone, wsRows, wsOut, wsDone>>

mainVars == <<inputState, rows, dry, batchSize, store, pc, i, cleaned, errors,
              rejections, batches, b, j, txStore, success, entries, summarized,
              doneLogged, disconnected, exitCode, run, runStart, submitted,
              failedBatch, storeFault, committed, prevStore>>

tbVars == <<tbArr, tbSize, tbOut, tbDone>>

wsVars == <<wsRows, wsOut, wsDone>>

----------------------------------------------------------------------------
(* Bounds *)

MaxRows == 2

MaxBatchSize == 2

MaxRuns == 2

MaxArr == 4

MaxSumRows == 2

MaxSize == 3

----------------------------------------------------------------------------
(* Values *)

Undefined == <<"#undefined">>

Null == <<"#null">>

True == <<"#true">>

False == <<"#false">>

IsNullish(v) == v = Undefined \/ v = Null

\* JavaScript truthiness of a value that is a string, undefined or null.
Truthy(v) == ~IsNullish(v) /\ v # <<>>

Min(x, y) == IF x <= y THEN x ELSE y

\* String.prototype.trim over the model's alphabet, whose only white space is " ".
RECURSIVE TrimLeft(_)
TrimLeft(s) == IF s # <<>> /\ Head(s) = " " THEN TrimLeft(Tail(s)) ELSE s

RECURSIVE TrimRight(_)
TrimRight(s) ==
    IF s # <<>> /\ s[Len(s)] = " " THEN TrimRight(SubSeq(s, 1, Len(s) - 1)) ELSE s

Trim(s) == TrimRight(TrimLeft(s))

LowerChar(ch) ==
    CASE ch = "A" -> "a"
      [] ch = "B" -> "b"
      [] ch = "E" -> "e"
      [] ch = "N" -> "n"
      [] ch = "O" -> "o"
      [] ch = "S" -> "s"
      [] ch = "T" -> "t"
      [] ch = "Y" -> "y"
      [] OTHER -> ch

\* String.prototype.toLowerCase over the model's alphabet.
ToLowerCase(s) == [k \in 1..Len(s) |-> LowerChar(s[k])]

DigitValue(ch) ==
    CASE ch = "0" -> 0 [] ch = "1" -> 1 [] ch = "2" -> 2 [] ch = "3" -> 3
      [] ch = "4" -> 4 [] ch = "5" -> 5 [] ch = "6" -> 6 [] ch = "7" -> 7
      [] ch = "8" -> 8 [] ch = "9" -> 9 [] OTHER -> -1

RECURSIVE DigitsValue(_)
DigitsValue(s) ==
    IF s = <<>> THEN 0 ELSE DigitsValue(SubSeq(s, 1, Len(s) - 1)) * 10 + DigitValue(s[Len(s)])

\* A raw hoursWorked is [t |-> "undefined" | "null" | "num" | "str", n, s]:
\* n the number in thousandths of an hour, s the string's characters.
\* Number(v), in thousandths: [ok |-> finite, n |-> value].  Over the model's
\* alphabet (digits, letters, " ") a string is numeric exactly when, trimmed,
\* it is empty (0) or all digits.
NumberOf(v) ==
    IF v.t = "num" THEN [ok |-> TRUE, n |-> v.n]
    ELSE LET s == Trim(v.s) IN
         IF \A k \in 1..Len(s) : DigitValue(s[k]) >= 0
         THEN [ok |-> TRUE, n |-> DigitsValue(s) * 1000]
         ELSE [ok |-> FALSE, n |-> 0]

\* Math.round(n * 100) / 100 of a number in thousandths, in hundredths:
\* Math.round rounds half towards +Infinity.
Round2(n) == (n + 5) \div 10

\* toFloat2: [ok |-> FALSE] stands for undefined.
toFloat2(v) ==
    IF v.t \in {"undefined", "null"} \/ (v.t = "str" /\ v.s = <<>>)
    THEN [ok |-> FALSE, n |-> 0]
    ELSE LET num == NumberOf(v) IN
         IF num.ok THEN [ok |-> TRUE, n |-> Round2(num.n)] ELSE [ok |-> FALSE, n |-> 0]

\* toBool: Undefined stands for undefined, True and False for the booleans.
toBool(v) ==
    IF IsNullish(v) \/ v = <<>> THEN Undefined
    ELSE IF v \in {True, False} THEN v
    ELSE LET s == ToLowerCase(Trim(v)) IN
         IF s \in {<<"t", "r", "u", "e">>, <<"1">>, <<"y", "e", "s">>, <<"y">>} THEN True
         ELSE IF s \in {<<"f", "a", "l", "s", "e">>, <<"0">>, <<"n", "o">>, <<"n">>} THEN False
         ELSE Undefined

Staff == <<"S", "t", "a", "f", "f">>

\* r.f?.toString().trim()
OptTrim(v) == IF IsNullish(v) THEN Undefined ELSE Trim(v)

clean(r) ==
    [email       |-> IF IsNullish(r.email) THEN Undefined ELSE ToLowerCase(Trim(r.email)),
     employeeNum |-> OptTrim(r.employeeNum),
     firstName   |-> OptTrim(r.firstName),
     lastName    |-> OptTrim(r.lastName),
     department  |-> IF Truthy(OptTrim(r.department)) THEN OptTrim(r.department) ELSE Null,
     role        |-> IF Truthy(OptTrim(r.role)) THEN OptTrim(r.role) ELSE Staff,
     hoursWorked |-> IF toFloat2(r.hoursWorked).ok THEN toFloat2(r.hoursWorked).n ELSE 0,
     active      |-> IF toBool(r.active) = Undefined THEN True ELSE toBool(r.active)]

ErrMissingKey == "Missing unique key (email or employeeNum)."

ErrFirstName == "Missing firstName."

ErrLastName == "Missing lastName."

ErrNegative == "hoursWorked cannot be negative."

ErrOver24 == "hoursWorked per record > 24 is not allowed."

validateNoLastName(c) ==
    (IF ~Truthy(c.email) /\ ~Truthy(c.employeeNum) THEN <<ErrMissingKey>> ELSE <<>>)
    \o (IF ~Truthy(c.firstName) THEN <<ErrFirstName>> ELSE <<>>)
    \o (IF c.hoursWorked < 0 THEN <<ErrNegative>> ELSE <<>>)
    \o (IF c.hoursWorked > 2400 THEN <<ErrOver24>> ELSE <<>>)

\* validate: the violation messages, in the code's order.
validate(c) ==
    (IF ~Truthy(c.email) /\ ~Truthy(c.employeeNum) THEN <<ErrMissingKey>> ELSE <<>>)
    \o (IF ~Truthy(c.firstName) THEN <<ErrFirstName>> ELSE <<>>)
    \o (IF ~Truthy(c.lastName) THEN <<ErrLastName>> ELSE <<>>)
    \o (IF c.hoursWorked < 0 THEN <<ErrNegative>> ELSE <<>>)
    \o (IF c.hoursWorked > 2400 THEN <<ErrOver24>> ELSE <<>>)

\* Array.prototype.slice(from, to): 0-based, `to` excluded and clamped.
Slice(arr, from, to) == SubSeq(arr, from + 1, Min(to, Len(arr)))

RECURSIVE BatchesFrom(_, _, _, _)
BatchesFrom(arr, size, from, step) ==
    IF from < Len(arr)
    THEN <<Slice(arr, from, from + size)>> \o BatchesFrom(arr, size, from + step, step)
    ELSE <<>>

toBatchesSkipping(arr, size) == BatchesFrom(arr, size, 0, size + 1)

\* toBatches: the for loop, i from 0 in steps of size.
toBatches(arr, size) == BatchesFrom(arr, size, 0, size)

----------------------------------------------------------------------------
(* The employee table and prisma.employee.upsert *)

\* email and employeeNum are each unique; a null employeeNum conflicts with
\* nothing.
Conflicts(others, row) ==
    \E o \in others :
        \/ o.email = row.email
        \/ (row.employeeNum # Null /\ o.employeeNum = row.employeeNum)

PlaceholderSuffix == <<"@placeholder.local">>

\* `${c.employeeNum!}@placeholder.local`
Placeholder(num) == num \o PlaceholderSuffix

\* x ?? y
Coalesce(x, y) == IF IsNullish(x) THEN y ELSE x

\* A row with the fields both upsert paths write on update and on create.
WithPayload(email, num, c) ==
    [email |-> email, employeeNum |-> num, firstName |-> c.firstName,
     lastName |-> c.lastName, department |-> c.department, role |-> c.role,
     hoursWorked |-> c.hoursWorked, active |-> c.active]

\* The row the upsert writes: on update a field given as undefined is left
\* as stored.
UpsertRow(st, c) ==
    IF Truthy(c.email)
    THEN LET hit == {r \in st : r.email = c.email} IN
         IF hit # {}
         THEN LET old == CHOOSE r \in hit : TRUE IN
              WithPayload(old.email, Coalesce(c.employeeNum, old.employeeNum), c)
         ELSE WithPayload(c.email, Coalesce(c.employeeNum, Null), c)
    ELSE LET hit == {r \in st : r.employeeNum = c.employeeNum} IN
         IF hit # {}
         THEN LET old == CHOOSE r \in hit : TRUE IN
              WithPayload(Coalesce(c.email, old.email), old.employeeNum, c)
         ELSE WithPayload(Coalesce(c.email, Placeholder(c.employeeNum)), c.employeeNum, c)

\* The rows the upsert's where clause selects (at most one).
UpsertHit(st, c) ==
    IF Truthy(c.email) THEN {r \in st : r.email = c.email}
    ELSE {r \in st : r.employeeNum = c.employeeNum}

\* One upsert inside a transaction: [ok |-> it succeeded, store |-> the table
\* after it]. A unique-constraint violation makes it fail.
Upsert(st, c) ==
    LET rest == st \ UpsertHit(st, c)
        row == UpsertRow(st, c)
    IN  IF Conflicts(rest, row) THEN [ok |-> FALSE, store |-> st]
        ELSE [ok |-> TRUE, store |-> rest \cup {row}]

\* A whole transaction over a batch, operation by operation: all of it or,
\* when an operation fails, none of it.
RECURSIVE ApplyBatch(_, _)
ApplyBatch(st, batch) ==
    IF batch = <<>> THEN [ok |-> TRUE, store |-> st]
    ELSE LET first == Upsert(st, Head(batch)) IN
         IF ~first.ok THEN [ok |-> FALSE, store |-> st]
         ELSE LET rest == ApplyBatch(first.store, Tail(batch)) IN
              IF rest.ok THEN rest ELSE [ok |-> FALSE, store |-> st]

\* The table after the first n batches have committed one after the other.
RECURSIVE ApplyBatches(_, _, _)
ApplyBatches(st, bs, n) ==
    IF n = 0 THEN [ok |-> TRUE, store |-> st]
    ELSE LET before == ApplyBatches(st, bs, n - 1) IN
         LET this == ApplyBatch(before.store, bs[n]) IN
         [ok |-> before.ok /\ this.ok, store |-> this.store]

----------------------------------------------------------------------------
(* weeklySummary *)

EXPECTED_WEEKLY_HOURS == 4000

\* r.email || r.employeeNum!
KeyOf(r) == IF Truthy(r.email) THEN r.email ELSE r.employeeNum

\* map.set(key, (map.get(key) ?? 0) + hours) on a Map kept as the sequence of
\* its [key, total] pairs in insertion order.
MapAdd(map, key, hours) ==
    IF \E k \in 1..Len(map) : map[k].key = key
    THEN [k \in 1..Len(map) |->
            IF map[k].key = key THEN [key |-> key, total |-> map[k].total + hours]
            ELSE map[k]]
    ELSE Append(map, [key |-> key, total |-> hours])

RECURSIVE Totals(_)
Totals(rs) ==
    IF rs = <<>> THEN <<>>
    ELSE LET r == rs[Len(rs)] IN
         MapAdd(Totals(SubSeq(rs, 1, Len(rs) - 1)), KeyOf(r), r.hoursWorked)

StatusOfInclusive(total) ==
    IF total = 0 THEN "FAIL"
    ELSE IF total > 0 /\ total <= EXPECTED_WEEKLY_HOURS THEN "WARN"
    ELSE "PASS"

StatusOf(total) ==
    IF total = 0 THEN "FAIL"
    ELSE IF total > 0 /\ total < EXPECTED_WEEKLY_HOURS THEN "WARN"
    ELSE "PASS"

\* Math.round(x * 100) / 100 of hours held in hundredths: x * 100 is the
\* integer itself, which Math.round leaves.
RoundHundredths(h) == h

EntryOf(kt) ==
    [key |-> kt.key,
     total_hours |-> RoundHundredths(kt.total),
     expected_hours |-> EXPECTED_WEEKLY_HOURS,
     delta |-> RoundHundredths(kt.total - EXPECTED_WEEKLY_HOURS),
     status |-> StatusOf(kt.total)]

\* weeklySummary's entries, in Map order.
weeklySummary(rs) == LET map == Totals(rs) IN [k \in 1..Len(map) |-> EntryOf(map[k])]

----------------------------------------------------------------------------
(* The inputs the runs are checked over *)

Num(n) == [t |-> "num", n |-> n, s |-> <<>>]

Str(s) == [t |-> "str", n |-> 0, s |-> s]

NoHours == [t |-> "undefined", n |-> 0, s |-> <<>>]

Raw(email, num, first, last, dept, role, hours, active) ==
    [email |-> email, employeeNum |-> num, firstName |-> first, lastName |-> last,
     department |-> dept, role |-> role, hoursWorked |-> hours, active |-> active]

\* Accepted, keyed on employeeNum "1", no email.
RowNumOnly ==
    Raw(Undefined, <<"1">>, <<"X">>, <<"Y">>, Undefined, Undefined, Num(10000), Undefined)

\* Accepted, email " A" (cleaned to "a"), employeeNum "2", hours "16".
RowA2 ==
    Raw(<<" ", "A">>, <<"2">>, <<"P">>, <<"Q">>, <<" ">>, <<"T">>, Str(<<"1", "6">>), <<"N", "o">>)

\* Accepted, email "b", employeeNum "2 " (cleaned to "2"), hours 24.004.
RowB2 ==
    Raw(<<"b">>, <<"2", " ">>, <<"X">>, <<"Y">>, <<"D">>, Null, Num(24004), True)

\* Accepted, email " " (cleaned to the empty string), employeeNum "1".
RowBlankEmail ==
    Raw(<<" ">>, <<"1">>, <<"P">>, <<"Q">>, Null, <<" ">>, NoHours, False)

\* Rejected: no key (email null, employeeNum blank), hours -1.
RowNoKey ==
    Raw(Null, <<" ">>, <<"X">>, <<"Y">>, Undefined, Undefined, Num(-1000), Undefined)

\* Rejected: blank lastName only; hours "ab" is no number and becomes 0.
RowNoLast ==
    Raw(<<"a">>, Undefined, <<"X">>, <<" ">>, Undefined, Undefined, Str(<<"a", "b">>), <<"y">>)

\* Rejected: no firstName, hours 24.006 rounds to 24.01.
RowOver24 ==
    Raw(<<"b">>, Undefined, Undefined, <<"Y">>, Undefined, Undefined, Num(24006), <<"x">>)

RawRows == {RowNumOnly, RowA2, RowB2, RowBlankEmail, RowNoKey, RowNoLast, RowOver24}

RowSeqs == UNION {[1..n -> RawRows] : n \in 0..MaxRows}

\* A row an earlier week left in the table: email "a", employeeNum "1".
StoredA1 ==
    [email |-> <<"a">>, employeeNum |-> <<"1">>, firstName |-> <<"O">>,
     lastName |-> <<"L">>, department |-> Null, role |-> Staff,
     hoursWorked |-> 800, active |-> True]

InitStores == {{}, {StoredA1}}

InputStates == {"missing", "badjson", "notarray", "ok"}

----------------------------------------------------------------------------
(* main() *)

\* errs.join('; ')
RECURSIVE Join(_)
Join(errs) ==
    IF Len(errs) <= 1 THEN errs ELSE <<Head(errs), "; ">> \o Join(Tail(errs))

ShouldUpsertIgnoringDry(d, c) == Len(c) > 0

\* if (!dry && cleaned.length)
ShouldUpsert(d, c) == ~d /\ Len(c) > 0

StoreAfterAbortPartial(st, tx) == tx

\* A transaction that does not commit leaves the table as it was.
StoreAfterAbort(st, tx) == st

PcRetryBatch == "loop"

PcSwallowFailure == "summary"

\* A rejected $transaction is not caught inside main(): it rejects main()'s
\* promise, which main().catch handles.
PcAfterBatchFailure == "caught"

TbIdle == tbArr = <<>> /\ tbSize = 1 /\ tbOut = <<>> /\ tbDone = FALSE

WsIdle == wsRows = <<>> /\ wsOut = <<>> /\ wsDone = FALSE

\* The locals of a run of main() that has just started.
FreshRun ==
    /\ pc = "start"
    /\ i = 0
    /\ cleaned = <<>>
    /\ errors = <<>>
    /\ rejections = <<>>
    /\ batches = <<>>
    /\ b = 0
    /\ j = 0
    /\ success = 0
    /\ entries = <<>>
    /\ summarized = <<>>
    /\ doneLogged = FALSE
    /\ disconnected = FALSE
    /\ exitCode = -1
    /\ submitted = <<>>
    /\ failedBatch = 0
    /\ committed = 0

Init ==
    /\ inputState \in InputStates
    /\ rows \in (IF inputState = "ok" THEN RowSeqs ELSE {<<>>})
    /\ dry \in BOOLEAN
    /\ batchSize \in 1..MaxBatchSize
    /\ store \in InitStores
    /\ txStore = store
    /\ runStart = store
    /\ prevStore = store
    /\ run = 1
    /\ storeFault = FALSE
    /\ FreshRun
    /\ TbIdle
    /\ WsIdle

inputsAndHarness == <<inputState, rows, dry, batchSize, run, prevStore, runStart,
                      tbArr, tbSize, tbOut, tbDone, wsRows, wsOut, wsDone>>

\* if (!fs.existsSync(INPUT)) { ...; process.exit(1); }
InputNotFound ==
    /\ pc = "start"
    /\ inputState = "missing"
    /\ pc' = "exited"
    /\ exitCode' = 1
    /\ UNCHANGED <<inputsAndHarness, store, i, cleaned, errors, rejections, batches, b, j,
                   txStore, success, entries, summarized, doneLogged, disconnected,
                   submitted, failedBatch, storeFault, committed>>

\* try { rows = JSON.parse(raw); } catch { ...; process.exit(1); }
InvalidJson ==
    /\ pc = "start"
    /\ inputState = "badjson"
    /\ pc' = "exited"
    /\ exitCode' = 1
    /\ UNCHANGED <<inputsAndHarness, store, i, cleaned, errors, rejections, batches, b, j,
                   txStore, success, entries, summarized, doneLogged, disconnected,
                   submitted, failedBatch, storeFault, committed>>

\* if (!Array.isArray(rows)) { ...; process.exit(1); }
NotAnArray ==
    /\ pc = "start"
    /\ inputState = "notarray"
    /\ pc' = "exited"
    /\ exitCode' = 1
    /\ UNCHANGED <<inputsAndHarness, store, i, cleaned, errors, rejections, batches, b, j,
                   txStore, success, entries, summarized, doneLogged, disconnected,
                   submitted, failedBatch, storeFault, committed>>

\* The input is an array: profile.json is written and the forEach starts.
Loaded ==
    /\ pc = "start"
    /\ inputState = "ok"
    /\ pc' = "clean"
    /\ i' = 0
    /\ UNCHANGED <<inputsAndHarness, store, cleaned, errors, rejections, batches, b, j,
                   txStore, success, entries, summarized, doneLogged, disconnected,
                   exitCode, submitted, failedBatch, storeFault, committed>>

\* One call of the forEach callback: clean, validate, push to errors or cleaned.
CleanRow ==
    /\ pc = "clean"
    /\ i < Len(rows)
    /\ LET c == clean(rows[i + 1])
           errs == validate(c)
       IN  IF Len(errs) > 0
           THEN /\ errors' = Append(errors, [index |-> i, error |-> Join(errs)])
                /\ UNCHANGED cleaned
           ELSE /\ cleaned' = Append(cleaned, c)
                /\ UNCHANGED errors
    /\ i' = i + 1
    /\ UNCHANGED <<inputsAndHarness, store, pc, rejections, batches, b, j,
                   txStore, success, entries, summarized, doneLogged, disconnected,
                   exitCode, submitted, failedBatch, storeFault, committed>>

\* After the forEach: the rejections file, then the gate of the upsert stage.
EndClean ==
    /\ pc = "clean"
    /\ i = Len(rows)
    /\ rejections' = (IF Len(errors) > 0 THEN errors ELSE <<>>)
    /\ IF ShouldUpsert(dry, cleaned)
       THEN /\ batches' = toBatches(cleaned, batchSize)
            /\ b' = 0
            /\ pc' = "loop"
       ELSE /\ pc' = "summary"
            /\ UNCHANGED <<batches, b>>
    /\ UNCHANGED <<inputsAndHarness, store, i, cleaned, errors, j,
                   txStore, success, entries, summarized, doneLogged, disconnected,
                   exitCode, submitted, failedBatch, storeFault, committed>>

\* for (...; b < batches.length; ...): prisma.$transaction(batch.map(...)) is
\* handed the batch's upserts.
SubmitBatch ==
    /\ pc = "loop"
    /\ b < Len(batches)
    /\ submitted' = Append(submitted, b + 1)
    /\ txStore' = store
    /\ j' = 0
    /\ pc' = "tx"
    /\ UNCHANGED <<inputsAndHarness, store, i, cleaned, errors, rejections, batches, b,
                   success, entries, summarized, doneLogged, disconnected,
                   exitCode, failedBatch, storeFault, committed>>

\* The for loop ends.
LoopExit ==
    /\ pc = "loop"
    /\ b >= Len(batches)
    /\ pc' = "summary"
    /\ UNCHANGED <<inputsAndHarness, store, i, cleaned, errors, rejections, batches, b, j,
                   txStore, success, entries, summarized, doneLogged, disconnected,
                   exitCode, submitted, failedBatch, storeFault, committed>>

\* The transaction executes its next upsert; a unique-constraint violation
\* aborts the transaction and rejects the awaited promise.
TxUpsert ==
    /\ pc = "tx"
    /\ j < Len(batches[b + 1])
    /\ LET res == Upsert(txStore, batches[b + 1][j + 1]) IN
       IF res.ok
       THEN /\ txStore' = res.store
            /\ j' = j + 1
            /\ UNCHANGED <<pc, store, failedBatch>>
       ELSE /\ pc' = PcAfterBatchFailure
            /\ store' = StoreAfterAbort(store, txStore)
            /\ failedBatch' = b + 1
            /\ UNCHANGED <<txStore, j>>
    /\ UNCHANGED <<inputsAndHarness, i, cleaned, errors, rejections, batches, b,
                   success, entries, summarized, doneLogged, disconnected,
                   exitCode, submitted, storeFault, committed>>

\* The store fails or the 60 s timeout elapses before the transaction commits.
TxFault ==
    /\ pc = "tx"
    /\ storeFault' = TRUE
    /\ pc' = PcAfterBatchFailure
    /\ store' = StoreAfterAbort(store, txStore)
    /\ failedBatch' = b + 1
    /\ UNCHANGED <<inputsAndHarness, i, cleaned, errors, rejections, batches, b, j,
                   txStore, success, entries, summarized, doneLogged, disconnected,
                   exitCode, submitted, committed>>

\* The transaction commits; success += batch.length; b++.
TxCommit ==
    /\ pc = "tx"
    /\ j = Len(batches[b + 1])
    /\ store' = txStore
    /\ success' = success + Len(batches[b + 1])
    /\ committed' = committed + 1
    /\ b' = b + 1
    /\ pc' = "loop"
    /\ UNCHANGED <<inputsAndHarness, i, cleaned, errors, rejections, batches, j,
                   txStore, entries, summarized, doneLogged, disconnected,
                   exitCode, submitted, failedBatch, storeFault>>

\* weeklySummary(cleaned), the tallies and the two final log lines.
Summarize ==
    /\ pc = "summary"
    /\ summarized' = cleaned
    /\ entries' = weeklySummary(cleaned)
    /\ doneLogged' = TRUE
    /\ pc' = "disconnect"
    /\ UNCHANGED <<inputsAndHarness, store, i, cleaned, errors, rejections, batches, b, j,
                   txStore, success, disconnected,
                   exitCode, submitted, failedBatch, storeFault, committed>>

\* await prisma.$disconnect(); main() returns and the process ends with code 0.
Disconnect ==
    /\ pc = "disconnect"
    /\ disconnected' = TRUE
    /\ exitCode' = 0
    /\ pc' = "exited"
    /\ UNCHANGED <<inputsAndHarness, store, i, cleaned, errors, rejections, batches, b, j,
                   txStore, success, entries, summarized, doneLogged,
                   submitted, failedBatch, storeFault, committed>>

\* main().catch: console.error(e); await prisma.$disconnect(); process.exit(1)
CatchHandler ==
    /\ pc = "caught"
    /\ disconnected' = TRUE
    /\ exitCode' = 1
    /\ pc' = "exited"
    /\ UNCHANGED <<inputsAndHarness, store, i, cleaned, errors, rejections, batches, b, j,
                   txStore, success, entries, summarized, doneLogged,
                   submitted, failedBatch, storeFault, committed>>

\* The scheduler starts the job again over the unchanged input file.
Rerun ==
    /\ pc = "exited"
    /\ run < MaxRuns
    /\ run' = run + 1
    /\ prevStore' = store
    /\ runStart' = store
    /\ txStore' = store
    /\ pc' = "start"
    /\ i' = 0
    /\ cleaned' = <<>>
    /\ errors' = <<>>
    /\ rejections' = <<>>
    /\ batches' = <<>>
    /\ b' = 0
    /\ j' = 0
    /\ success' = 0
    /\ entries' = <<>>
    /\ summarized' = <<>>
    /\ doneLogged' = FALSE
    /\ disconnected' = FALSE
    /\ exitCode' = -1
    /\ submitted' = <<>>
    /\ failedBatch' = 0
    /\ committed' = 0
    /\ UNCHANGED <<inputState, rows, dry, batchSize, store, storeFault,
                   tbArr, tbSize, tbOut, tbDone, wsRows, wsOut, wsDone>>

Next ==
    \/ InputNotFound
    \/ InvalidJson
    \/ NotAnArray
    \/ Loaded
    \/ CleanRow
    \/ EndClean
    \/ SubmitBatch
    \/ LoopExit
    \/ TxUpsert
    \/ TxFault
    \/ TxCommit
    \/ Summarize
    \/ Disconnect
    \/ CatchHandler
    \/ Rerun

Spec == Init /\ [][Next]_vars

----------------------------------------------------------------------------
(* toBatches and weeklySummary on their own, over inputs main() can pass *)

MainIdle ==
    /\ inputState = "ok"
    /\ rows = <<>>
    /\ dry = FALSE
    /\ batchSize = 1
    /\ store = {}
    /\ txStore = {}
    /\ runStart = {}
    /\ prevStore = {}
    /\ run = 1
    /\ storeFault = FALSE
    /\ FreshRun

\* Two accepted records that differ.
TbItems == {clean(RowNumOnly), clean(RowA2)}

InitTb ==
    /\ MainIdle
    /\ WsIdle
    /\ tbArr \in UNION {[1..n -> TbItems] : n \in 0..MaxArr}
    /\ tbSize \in 1..MaxSize
    /\ tbOut = <<>>
    /\ tbDone = FALSE

ApplyToBatches ==
    /\ ~tbDone
    /\ tbOut' = toBatches(tbArr, tbSize)
    /\ tbDone' = TRUE
    /\ UNCHANGED <<mainVars, wsVars, tbArr, tbSize>>

NextTb == ApplyToBatches

SpecBatches == InitTb /\ [][NextTb]_vars

\* The accepted records with these keys and hours: every combination of an
\* email (absent, blank, "a", "1"), an employeeNum (absent, "1", "2") and hours
\* (0, 15.994, "16", 24) that validate accepts.
SumItems ==
    {c \in {clean(Raw(e, n, <<"X">>, <<"Y">>, Undefined, Undefined, h, Undefined)) :
              e \in {Undefined, <<" ">>, <<"a">>, <<"1">>},
              n \in {Undefined, <<"1">>, <<"2">>},
              h \in {Num(0), Num(15994), Str(<<"1", "6">>), Num(24000)}} :
        validate(c) = <<>>}

InitWs ==
    /\ MainIdle
    /\ TbIdle
    /\ wsRows \in UNION {[1..n -> SumItems] : n \in 0..MaxSumRows}
    /\ wsOut = <<>>
    /\ wsDone = FALSE

ApplyWeeklySummary ==
    /\ ~wsDone
    /\ wsOut' = weeklySummary(wsRows)
    /\ wsDone' = TRUE
    /\ UNCHANGED <<mainVars, tbVars, wsRows>>

NextWs == ApplyWeeklySummary

SpecSummary == InitWs /\ [][NextWs]_vars

----------------------------------------------------------------------------
(* Properties *)

RECURSIVE Flatten(_)
Flatten(ss) == IF ss = <<>> THEN <<>> ELSE Head(ss) \o Flatten(Tail(ss))

Elements(seq) == {seq[k] : k \in 1..Len(seq)}

\* The acceptance rule, stated on the cleaned record.
Acceptable(c) ==
    /\ Truthy(c.email) \/ Truthy(c.employeeNum)
    /\ Truthy(c.firstName)
    /\ Truthy(c.lastName)
    /\ c.hoursWorked >= 0
    /\ c.hoursWorked <= 2400

\* The acceptable ones among the first n rows, cleaned, in input order.
RECURSIVE AcceptedOf(_, _)
AcceptedOf(rs, n) ==
    IF n = 0 THEN <<>>
    ELSE IF Acceptable(clean(rs[n])) THEN Append(AcceptedOf(rs, n - 1), clean(rs[n]))
    ELSE AcceptedOf(rs, n - 1)

\* The 0-based positions of the others, ascending.
RECURSIVE RejectedOf(_, _)
RejectedOf(rs, n) ==
    IF n = 0 THEN <<>>
    ELSE IF Acceptable(clean(rs[n])) THEN RejectedOf(rs, n - 1)
    ELSE Append(RejectedOf(rs, n - 1), n - 1)

\* Row r holds the non-key fields of record c.
WrittenFrom(r, c) ==
    /\ r.firstName = c.firstName
    /\ r.lastName = c.lastName
    /\ r.department = c.department
    /\ r.role = c.role
    /\ r.hoursWorked = c.hoursWorked
    /\ r.active = c.active

RECURSIVE SumHours(_, _)
SumHours(rs, key) ==
    IF rs = <<>> THEN 0
    ELSE (IF (IF Truthy(Head(rs).email) THEN Head(rs).email ELSE Head(rs).employeeNum) = key
          THEN Head(rs).hoursWorked ELSE 0) + SumHours(Tail(rs), key)

\* C1: running the job again over the same input leaves the table as the
\* previous run left it (no store failure or timeout having occurred).
\* The code violates this.
C1_RerunLeavesStore ==
    (run >= 2 /\ pc = "exited" /\ inputState = "ok" /\ ~storeFault) => store = prevStore

\* C2: batch atomicity: at every moment the table holds the effect of whole
\* batches only, namely of the transactions that have committed in this run, each
\* applied in full; a transaction that fails leaves the table as it was when
\* the batch was submitted.
C2_BatchAtomicity ==
    LET done == ApplyBatches(runStart, batches, committed) IN
    /\ done.ok
    /\ store = done.store
    /\ failedBatch # 0 => failedBatch = committed + 1

\* C2 witness: a transaction failed on a unique-key conflict after it had
\* already executed an upsert, and the table is as it was at submission.
C2_Witness ==
    /\ pc = "caught"
    /\ ~storeFault
    /\ j >= 1
    /\ txStore # store
    /\ store = runStart

\* C3: batches are submitted one at a time in index order, each only after
\* the one before has committed; once a batch has failed nothing more is
\* submitted, the table no longer changes, and it holds exactly the effects of
\* the batches before the failed one.
C3_BatchOrderFailFast ==
    [][run' = run =>
        /\ submitted' # submitted =>
             /\ failedBatch = 0
             /\ submitted' = Append(submitted, Len(submitted) + 1)
             /\ committed = Len(submitted)
        /\ committed' # committed =>
             /\ committed' = committed + 1
             /\ committed' = Len(submitted)
        /\ failedBatch # 0 =>
             /\ submitted' = submitted
             /\ store' = store
             /\ failedBatch' = failedBatch
             /\ committed' = committed
        /\ failedBatch' # 0 =>
             /\ failedBatch' = Len(submitted')
             /\ store' = ApplyBatches(runStart, batches, failedBatch' - 1).store
    ]_vars

\* C3 witness: batch 1 committed and changed the table, batch 2 failed, the
\* run has exited.
C3_Witness ==
    /\ pc = "exited"
    /\ failedBatch = 2
    /\ committed = 1
    /\ submitted = <<1, 2>>
    /\ store # runStart

\* C4: under --dry-run, or with no accepted record, no batch is ever
\* submitted, the table is unchanged, success stays 0, and the run ends with
\* the weekly summary computed over exactly the accepted records.
C4_DryRunSkipsStore ==
    (inputState = "ok" /\ (dry \/ (pc \notin {"start", "clean"} /\ cleaned = <<>>))) =>
        /\ submitted = <<>>
        /\ store = runStart
        /\ success = 0
        /\ pc \notin {"loop", "tx", "caught"}
        /\ pc = "exited" =>
             /\ doneLogged
             /\ exitCode = 0
             /\ summarized = AcceptedOf(rows, Len(rows))
             /\ entries = weeklySummary(AcceptedOf(rows, Len(rows)))

\* C4 witness: a dry run with accepted records has exited, its summary written.
C4_Witness ==
    /\ dry
    /\ pc = "exited"
    /\ Len(cleaned) >= 1
    /\ Len(entries) >= 1

\* C5: an accepted record without an email (absent or empty) is upserted on
\* employeeNum: when no stored row has that employeeNum the created row's
\* email is "<employeeNum>@placeholder.local", and when one has, its stored
\* email is left unchanged.  The code violates this for an empty email.
C5_PlaceholderEmail ==
    [][(pc = "tx" /\ j' = j + 1 /\ ~Truthy(batches[b + 1][j + 1].email)) =>
        LET c == batches[b + 1][j + 1]
            hit == {r \in txStore : r.employeeNum = c.employeeNum}
        IN  IF hit = {}
            THEN \E r \in txStore' :
                    r.employeeNum = c.employeeNum /\ r.email = Placeholder(c.employeeNum)
            ELSE \A h \in hit : \E r \in txStore' :
                    r.employeeNum = c.employeeNum /\ r.email = h.email
    ]_vars

\* C6: every run that has exited has disconnected the store connection.
\* The code violates this on its three early exits.
C6_ReleasedOnExit == pc = "exited" => disconnected

\* C7: the records that reach the upsert stage and the summarizer are exactly
\* the cleaned rows that satisfy the acceptance rule, in input order; every
\* other row is in the rejection list once, with its original index and a
\* reason (naming the missing key when it has none); every row is processed
\* whatever was rejected before it; and no row the run writes to the table,
\* and no summary entry, comes from a rejected row.
C7_OnlyAcceptedFlow ==
    inputState = "ok" =>
        /\ cleaned = AcceptedOf(rows, i)
        /\ [k \in 1..Len(errors) |-> errors[k].index] = RejectedOf(rows, i)
        /\ \A k \in 1..Len(errors) :
             LET c == clean(rows[errors[k].index + 1]) IN
             /\ errors[k].error # <<>>
             /\ (~Truthy(c.email) /\ ~Truthy(c.employeeNum)) =>
                    ErrMissingKey \in Elements(errors[k].error)
        /\ pc \notin {"start", "clean"} =>
             /\ i = Len(rows)
             /\ Len(cleaned) + Len(errors) = Len(rows)
             /\ rejections = errors
        /\ pc \in {"loop", "tx", "caught"} => Flatten(batches) = AcceptedOf(rows, Len(rows))
        /\ \A r \in (store \cup txStore) \ runStart :
             \E k \in 1..Len(cleaned) : WrittenFrom(r, cleaned[k])
        /\ doneLogged =>
             /\ summarized = AcceptedOf(rows, Len(rows))
             /\ {entries[k].key : k \in 1..Len(entries)}
                  = {KeyOf(c) : c \in Elements(AcceptedOf(rows, Len(rows)))}

\* C7 witness: the first row was rejected, the second accepted and upserted,
\* and the run has exited after its summary.
C7_Witness ==
    /\ pc = "exited"
    /\ Len(errors) = 1
    /\ errors[1].index = 0
    /\ Len(cleaned) = 1
    /\ committed = 1
    /\ store # runStart
    /\ Len(entries) = 1

\* C8: toBatches returns contiguous slices whose concatenation is the input,
\* each of at most size records, none empty, all but the last of exactly size.
C8_BatchingIsPartition ==
    tbDone =>
        /\ Flatten(tbOut) = tbArr
        /\ \A k \in 1..Len(tbOut) :
             /\ Len(tbOut[k]) >= 1
             /\ Len(tbOut[k]) <= tbSize
             /\ k < Len(tbOut) => Len(tbOut[k]) = tbSize

\* C8 witness: several slices, the last one shorter than size.
C8_Witness ==
    /\ tbDone
    /\ Len(tbOut) >= 2
    /\ tbSize >= 2
    /\ Len(tbOut[Len(tbOut)]) < tbSize

\* C9: weeklySummary returns exactly one entry per distinct identity key
\* (email if present, else employeeNum); its total_hours is the sum of the
\* hours of the records with that key, its delta total_hours minus the
\* expected hours, its status FAIL at 0, WARN below the expected hours, PASS
\* from the expected hours on.
C9_SummaryAggregation ==
    wsDone =>
        LET keyOf(r) == IF Truthy(r.email) THEN r.email ELSE r.employeeNum
            keys == {keyOf(wsRows[k]) : k \in 1..Len(wsRows)}
        IN  /\ {wsOut[k].key : k \in 1..Len(wsOut)} = keys
            /\ Len(wsOut) = Cardinality(keys)
            /\ \A k \in 1..Len(wsOut) :
                 LET e == wsOut[k]
                     total == SumHours(wsRows, e.key)
                 IN  /\ e.total_hours = total
                     /\ e.expected_hours = 4000
                     /\ e.delta = total - 4000
                     /\ total = 0 => e.status = "FAIL"
                     /\ (0 < total /\ total < 4000) => e.status = "WARN"
                     /\ total >= 4000 => e.status = "PASS"

\* C9 witness: two records of one key add up to exactly the expected hours.
C9_Witness ==
    /\ wsDone
    /\ Len(wsRows) = 2
    /\ Len(wsOut) = 1
    /\ wsOut[1].total_hours = 4000
    /\ wsOut[1].status = "PASS"

\* C10: a run exits with 0 exactly when the input loaded as an array and no
\* batch failed, and with 1 otherwise; a run in which a batch failed never
\* prints the DONE line and never computes the weekly summary.
C10_ExitStatus ==
    /\ failedBatch # 0 => (~doneLogged /\ entries = <<>> /\ pc \in {"caught", "exited"})
    /\ pc = "exited" =>
         /\ exitCode \in {0, 1}
         /\ exitCode = 0 <=> (inputState = "ok" /\ failedBatch = 0)
         /\ exitCode = 0 => (doneLogged /\ committed = Len(batches))
    /\ pc # "exited" => exitCode = -1

\* C10 witness: batch 1 committed, batch 2 failed, the run exited with 1.
C10_Witness ==
    /\ pc = "exited"
    /\ exitCode = 1
    /\ failedBatch = 2
    /\ committed = 1
    /\ ~doneLogged

====
